---- MODULE Spec2Model ----
(***************************************************************************)
(* Multi-photo scan splitter (src/scan_spiltter.py): box deduplication,    *)
(* mask and edge detectors, projection splitter, orientation search and    *)
(* photo extraction.                                                       *)
(*                                                                         *)
(* Geometry.  A coordinate is a fixed-point number of 1/Sub pixels, so     *)
(* that the fractional corners cv2.boxPoints produces can be told apart    *)
(* from the integer cells they are truncated to.  A Box is the sequence of *)
(* its four corners <<x, y>>.  All Boxes of the model are axis-aligned     *)
(* rectangles (the minimum-area rectangle of an axis-aligned contour),     *)
(* for which cv2.fillPoly fills exactly the cells between the truncated    *)
(* corners, boundary included.                                             *)
(***************************************************************************)
EXTENDS Integers, Sequences, FiniteSets, TLC

\* ------------------------------------------------------------------ bounds
Sub == 4            \* sub-pixel resolution: one coordinate unit is 1/Sub px
MaxCands == 3       \* NMS inputs: at most this many candidate Boxes

\* ------------------------------------------------------- program constants
S == 2048           \* iou_quads: side of the rasterization grid
RefH == 1000        \* nms_quads: the reference shape handed to iou_quads
RefW == 1000
ThreshNum == 1      \* iou_thresh = 0.25 = ThreshNum / ThreshDen
ThreshDen == 4

\* ----------------------------------------------------------------- helpers
SetMin(T) == CHOOSE m \in T : \A t \in T : m <= t
SetMax(T) == CHOOSE m \in T : \A t \in T : m >= t
Abs(n) == IF n < 0 THEN -n ELSE n
Px(n) == n * Sub

\* The corners of the axis-aligned rectangle [x0, x1] x [y0, y1], in the
\* order cv2.boxPoints lists them (bottom-left, top-left, top-right,
\* bottom-right).
RectBox(x0, y0, x1, y1) == << <<x0, y1>>, <<x0, y0>>, <<x1, y0>>, <<x1, y1>> >>

\* ndarray.astype(np.int32) of a non-negative coordinate: truncation.
ToInt32(c) == c \div Sub

\* a2[:,0] *= sx; a2[:,1] *= sy with sx = S / W, sy = S / H: the scaled
\* corners, as numerators over the denominators W * Sub and H * Sub.
ScaleBox(box, H, W) == [i \in 1..4 |-> <<box[i][1] * S, box[i][2] * S>>]

\* quad_to_mask on the S x S grid: the filled cells of the scaled Box, as
\* the cell ranges [x0..x1] x [y0..y1] clipped to the grid (fillPoly clips
\* what lies outside the image); the mask is empty when a range is empty.
quad_to_mask(box2, H, W) ==
    LET xs == {box2[i][1] \div (W * Sub) : i \in 1..4}
        ys == {box2[i][2] \div (H * Sub) : i \in 1..4}
        lo(v) == IF v < 0 THEN 0 ELSE v
        hi(v) == IF v > S - 1 THEN S - 1 ELSE v
    IN  [x0 |-> lo(SetMin(xs)), x1 |-> hi(SetMax(xs)),
         y0 |-> lo(SetMin(ys)), y1 |-> hi(SetMax(ys))]

Span(a, b) == IF b >= a THEN b - a + 1 ELSE 0
MaskCount(m) == Span(m.x0, m.x1) * Span(m.y0, m.y1)
\* np.logical_or in place of np.logical_and.
MaskAndAsOr(ma, mb) ==
    [x0 |-> IF ma.x0 < mb.x0 THEN ma.x0 ELSE mb.x0,
     x1 |-> IF ma.x1 > mb.x1 THEN ma.x1 ELSE mb.x1,
     y0 |-> IF ma.y0 < mb.y0 THEN ma.y0 ELSE mb.y0,
     y1 |-> IF ma.y1 > mb.y1 THEN ma.y1 ELSE mb.y1]

MaskAnd(ma, mb) ==
    [x0 |-> IF ma.x0 > mb.x0 THEN ma.x0 ELSE mb.x0,
     x1 |-> IF ma.x1 < mb.x1 THEN ma.x1 ELSE mb.x1,
     y0 |-> IF ma.y0 > mb.y0 THEN ma.y0 ELSE mb.y0,
     y1 |-> IF ma.y1 < mb.y1 THEN ma.y1 ELSE mb.y1]

\* iou_quads(a, b, (H, W)): the fraction <<inter, union>>, 0.0 being <<0, 1>>.
iou_quads(a, b, H, W) ==
    LET ma == quad_to_mask(ScaleBox(a, H, W), H, W)
        mb == quad_to_mask(ScaleBox(b, H, W), H, W)
        inter == MaskCount(MaskAnd(ma, mb))
        union == MaskCount(ma) + MaskCount(mb) - inter
    IN  IF union = 0 THEN <<0, 1>> ELSE <<inter, union>>

\* ">=" in place of ">".
OverThreshInclusive(f) == f[1] * ThreshDen >= ThreshNum * f[2]

\* iou > iou_thresh, on the exact fraction.
OverThresh(f) == f[1] * ThreshDen > ThreshNum * f[2]

\* cv2.contourArea(b.astype(np.int32)), doubled (shoelace formula).
Area2(box) ==
    LET x(i) == ToInt32(box[i][1])
        y(i) == ToInt32(box[i][2])
        nx(i) == (i % 4) + 1
    IN  Abs(x(1) * y(nx(1)) - x(nx(1)) * y(1) + x(2) * y(nx(2)) - x(nx(2)) * y(2)
          + x(3) * y(nx(3)) - x(nx(3)) * y(3) + x(4) * y(nx(4)) - x(nx(4)) * y(4))

\* np.argsort(areas)[::-1]: every index order of descending area.  The
\* default sort kind is not stable, so equal areas may come in any order.
ArgsortDesc(boxes) ==
    LET n == Len(boxes)
    IN  {p \in [1..n -> 1..n] :
            /\ \A i, j \in 1..n : i # j => p[i] # p[j]
            /\ \A i \in 1..n - 1 : Area2(boxes[p[i]]) >= Area2(boxes[p[i + 1]])}

\* The inner loop of nms_quads: candidate i is kept unless its IoU with an
\* already kept Box exceeds the threshold.
\* The candidate compared with the latest kept Box only.
NmsKeepLatestOnly(boxes, kept, i) ==
    \/ Len(kept) = 0
    \/ ~OverThresh(iou_quads(boxes[i], boxes[kept[Len(kept)]], RefH, RefW))

NmsKeep(boxes, kept, i) ==
    \A k \in 1..Len(kept) : ~OverThresh(iou_quads(boxes[i], boxes[kept[k]], RefH, RefW))

\* The outer loop left at the first suppressed candidate.
RECURSIVE NmsLoopLeftEarly(_, _, _, _)
NmsLoopLeftEarly(boxes, areaOrder, at, kept) ==
    IF at > Len(areaOrder) THEN kept
    ELSE IF NmsKeep(boxes, kept, areaOrder[at])
    THEN NmsLoopLeftEarly(boxes, areaOrder, at + 1, Append(kept, areaOrder[at]))
    ELSE kept

\* The outer loop of nms_quads over areaOrder[at..]: the kept indices.
RECURSIVE NmsLoop(_, _, _, _)
NmsLoop(boxes, areaOrder, at, kept) ==
    IF at > Len(areaOrder) THEN kept
    ELSE NmsLoop(boxes, areaOrder, at + 1,
                 IF NmsKeep(boxes, kept, areaOrder[at])
                 THEN Append(kept, areaOrder[at]) ELSE kept)

\* nms_quads, as the list of kept indices (boxes[i] for i in kept).
nms_kept(boxes, areaOrder) ==
    IF Len(boxes) = 0 THEN << >> ELSE NmsLoop(boxes, areaOrder, 1, << >>)

nms_quads(boxes, areaOrder) ==
    LET kept == nms_kept(boxes, areaOrder) IN [k \in 1..Len(kept) |-> boxes[kept[k]]]

\* ------------------------------------------------------------ image model
(***************************************************************************)
(* A binary image is its size and the set of axis-aligned pixel            *)
(* rectangles whose union is its foreground; a rectangle is the inclusive  *)
(* pixel ranges [x0..x1] x [y0..y1].  The foregrounds of the model are     *)
(* single rectangles and L shapes (two bars overlapping in a corner), the  *)
(* shapes for which findContours, contourArea and minAreaRect are known    *)
(* in closed form: the outer contour runs through the centres of the       *)
(* boundary pixels, so it encloses area A - P/2 + 1 (A the pixel count, P  *)
(* the perimeter), and the minimum-area rectangle is the bounding box of   *)
(* the pixel centres.                                                      *)
(***************************************************************************)
MIN_AREA_NUM == 3       \* MIN_AREA_RATIO = 0.03 = MIN_AREA_NUM / RATIO_DEN
MAX_AREA_NUM == 98      \* MAX_AREA_RATIO = 0.98 = MAX_AREA_NUM / RATIO_DEN
RATIO_DEN == 100
MIN_SIDE == 20          \* w < 20 or h < 20; maxW < 20 or maxH < 20
RECT_NUM == 60          \* rectangularity < 0.60 = RECT_NUM / RATIO_DEN
VALLEY_DEN == 5         \* col_sum[v_idx] < 0.20 * col_sum.max()
MIN_SUB_AREA == 5000    \* cv2.contourArea(c) < 5000
ROW_WEIGHT == 100000    \* y*1e5 + x

R(x0, y0, x1, y1) == [x0 |-> x0, x1 |-> x1, y0 |-> y0, y1 |-> y1]
RectW(r) == r.x1 - r.x0 + 1
RectH(r) == r.y1 - r.y0 + 1
NonEmpty(r) == r.x0 <= r.x1 /\ r.y0 <= r.y1
RectAnd(a, b) == MaskAnd(a, b)
Overlap(a, b) == NonEmpty(RectAnd(a, b))
\* 8-connectivity of two pixel rectangles.
Touch(a, b) ==
    /\ a.x0 <= b.x1 + 1 /\ b.x0 <= a.x1 + 1
    /\ a.y0 <= b.y1 + 1 /\ b.y0 <= a.y1 + 1

\* comp_mask[:, lo:hi] and comp_mask[lo:hi, :], re-based at lo.
SliceCols(m, lo, hi) ==
    [h |-> m.h, w |-> hi - lo,
     rs |-> {q \in {R((IF r.x0 < lo THEN lo ELSE r.x0) - lo, r.y0,
                      (IF r.x1 > hi - 1 THEN hi - 1 ELSE r.x1) - lo, r.y1) : r \in m.rs} :
                NonEmpty(q)}]
SliceRows(m, lo, hi) ==
    [h |-> hi - lo, w |-> m.w,
     rs |-> {q \in {R(r.x0, (IF r.y0 < lo THEN lo ELSE r.y0) - lo,
                      r.x1, (IF r.y1 > hi - 1 THEN hi - 1 ELSE r.y1) - lo) : r \in m.rs} :
                NonEmpty(q)}]

\* comp_mask.sum(axis=0)[x] / 255: the foreground pixels of column x.
ColFg(m, x) ==
    Cardinality(UNION {r.y0..r.y1 : r \in {q \in m.rs : q.x0 <= x /\ x <= q.x1}})

\* (255 - comp_mask).sum(axis=0)[x] / 255: the background pixels of column x.
ColBg(m, x) ==
    m.h - Cardinality(UNION {r.y0..r.y1 : r \in {q \in m.rs : q.x0 <= x /\ x <= q.x1}})
RowBg(m, y) ==
    m.w - Cardinality(UNION {r.x0..r.x1 : r \in {q \in m.rs : q.y0 <= y /\ y <= q.y1}})

\* The columns (rows) at which the projection can change value: it is
\* constant between two consecutive ones, so its extrema and the first index
\* attaining them lie among them.
ColBreaks(m) ==
    {x \in {0} \cup {r.x0 : r \in m.rs} \cup {r.x1 + 1 : r \in m.rs} : x < m.w}
RowBreaks(m) ==
    {y \in {0} \cup {r.y0 : r \in m.rs} \cup {r.y1 + 1 : r \in m.rs} : y < m.h}

\* int(np.argmin(col_sum)): the first index attaining the minimum.
ArgminCol(m) ==
    LET lowest == SetMin({ColBg(m, x) : x \in ColBreaks(m)})
    IN  SetMin({x \in ColBreaks(m) : ColBg(m, x) = lowest})
ArgminRow(m) ==
    LET lowest == SetMin({RowBg(m, y) : y \in RowBreaks(m)})
    IN  SetMin({y \in RowBreaks(m) : RowBg(m, y) = lowest})
MaxColBg(m) == SetMax({ColBg(m, x) : x \in ColBreaks(m)})
MaxRowBg(m) == SetMax({RowBg(m, y) : y \in RowBreaks(m)})

\* cv2.findContours(m, RETR_EXTERNAL, ...): one contour per 8-connected
\* component, a component being the set of the rectangles that make it up.
findContours(m) ==
    IF m.w <= 0 \/ m.h <= 0 \/ m.rs = {} THEN {}
    ELSE IF \A a, b \in m.rs : Touch(a, b) THEN {m.rs}
    ELSE {{r} : r \in m.rs}

\* cv2.contourArea of an outer contour: A - P/2 + 1.
contourArea(c) ==
    LET a == CHOOSE r \in c : TRUE
        b == CHOOSE r \in c : c = {a, r}
        i == RectAnd(a, b)
        A == RectW(a) * RectH(a) + RectW(b) * RectH(b)
               - (IF a # b /\ NonEmpty(i) THEN RectW(i) * RectH(i) ELSE 0)
        P == 2 * (RectW(a) + RectH(a)) + 2 * (RectW(b) + RectH(b))
               - (IF a # b /\ NonEmpty(i) THEN 2 * (RectW(i) + RectH(i)) ELSE 0)
    IN  IF a = b THEN (RectW(a) - 1) * (RectH(a) - 1) ELSE A - (P \div 2) + 1

\* max(cnts, key=cv2.contourArea)
MaxContour(cnts) == CHOOSE c \in cnts : \A d \in cnts : contourArea(c) >= contourArea(d)

\* cv2.minAreaRect(c): the bounding box of the contour's pixel centres,
\* rect[1] being (x1 - x0, y1 - y0).
minAreaRect(c) ==
    R(SetMin({r.x0 : r \in c}), SetMin({r.y0 : r \in c}),
      SetMax({r.x1 : r \in c}), SetMax({r.y1 : r \in c}))
MinRectW(rect) == rect.x1 - rect.x0
MinRectH(rect) == rect.y1 - rect.y0

\* The shift back into the frame of the whole mask left out.
boxPointsUnshifted(rect, dx, dy) ==
    RectBox(Px(rect.x0), Px(rect.y0), Px(rect.x1), Px(rect.y1))

\* cv2.boxPoints(rect).astype("float32"), shifted by (dx, dy) pixels.
boxPoints(rect, dx, dy) ==
    RectBox(Px(rect.x0 + dx), Px(rect.y0 + dy), Px(rect.x1 + dx), Px(rect.y1 + dy))

\* A candidate Box together with the contour it is the rectangle of: the
\* contour's area and its rectangle's sides, and the code path that made it.
Cand(c, dx, dy, src) ==
    [pts |-> boxPoints(minAreaRect(c), dx, dy),
     area |-> contourArea(c),
     w |-> MinRectW(minAreaRect(c)),
     h |-> MinRectH(minAreaRect(c)),
     src |-> src]

\* ------------------------------------------------------ projection splitter
\* The body of "for m, shift in (...)": the Box of one half, if it survives.
SplitHalf(m, dx, dy) ==
    LET cnts == findContours(m)
    IN  IF cnts = {} THEN << >>
        ELSE IF contourArea(MaxContour(cnts)) < MIN_SUB_AREA THEN << >>
        ELSE << Cand(MaxContour(cnts), dx, dy, "split") >>

\* "<=" in place of "<".
ValleyColInclusive(m) == MaxColBg(m) > 0 /\ VALLEY_DEN * ColBg(m, ArgminCol(m)) <= MaxColBg(m)

\* col_sum.max() > 0 and col_sum[v_idx] < 0.20 * col_sum.max()
ValleyCol(m) == MaxColBg(m) > 0 /\ VALLEY_DEN * ColBg(m, ArgminCol(m)) < MaxColBg(m)
ValleyRow(m) == MaxRowBg(m) > 0 /\ VALLEY_DEN * RowBg(m, ArgminRow(m)) < MaxRowBg(m)

VerticalSplit(m) ==
    LET v_idx == ArgminCol(m)
    IN  IF ValleyCol(m)
        THEN SplitHalf(SliceCols(m, 0, v_idx), 0, 0)
               \o SplitHalf(SliceCols(m, v_idx, m.w), v_idx, 0)
        ELSE << >>

HorizontalSplit(m) ==
    LET h_idx == ArgminRow(m)
    IN  IF ValleyRow(m)
        THEN SplitHalf(SliceRows(m, 0, h_idx), 0, 0)
               \o SplitHalf(SliceRows(m, h_idx, m.h), 0, h_idx)
        ELSE << >>

\* The horizontal attempt made only when the vertical one left nothing.
TryHorizontalIfNone(boxes) == Len(boxes) = 0

\* if len(boxes) <= 1: the horizontal attempt appends to the same list.
TryHorizontal(boxes) == Len(boxes) <= 1

split_component_by_projection(m) ==
    LET boxes == VerticalSplit(m)
    IN  IF TryHorizontal(boxes) THEN boxes \o HorizontalSplit(m) ELSE boxes

\* ---------------------------------------------------------------- detectors
\* a < MIN_AREA_RATIO * area or a > MAX_AREA_RATIO * area
OutsideWindow(a, area) ==
    a * RATIO_DEN < MIN_AREA_NUM * area \/ a * RATIO_DEN > MAX_AREA_NUM * area

\* w < 20 or h < 20
TooSmall(w, h) == w < MIN_SIDE \/ h < MIN_SIDE

\* The rectangularity test left out: no component is handed to the splitter.
RectangularityIgnored(a, w, h) == FALSE

\* rectangularity = float(a) / max(1.0, w * h);  rectangularity < 0.60
LowRectangularity(a, w, h) ==
    a * RATIO_DEN < RECT_NUM * (IF w * h < 1 THEN 1 ELSE w * h)

\* comp = np.uint8(ws == label) * 255
CompMask(comp, H, W) == [h |-> H, w |-> W, rs |-> comp]

\* One iteration of "for label in np.unique(ws)" for a label > 1 whose pixels
\* are comp: the Boxes it adds.
MaskLabel(comp, H, W) ==
    LET cnts == findContours(CompMask(comp, H, W))
        c == MaxContour(cnts)
        a == contourArea(c)
        w == MinRectW(minAreaRect(c))
        h == MinRectH(minAreaRect(c))
    IN  IF cnts = {} THEN << >>
        ELSE IF OutsideWindow(a, H * W) THEN << >>
        ELSE IF TooSmall(w, h) THEN << >>
        ELSE IF LowRectangularity(a, w, h)
             THEN split_component_by_projection(CompMask(comp, H, W))
        ELSE << Cand(c, 0, 0, "direct") >>

\* Whether the label reaches the projection splitter.
RoutedToSplitter(comp, H, W) ==
    LET c == MaxContour(findContours(CompMask(comp, H, W)))
        a == contourArea(c)
        w == MinRectW(minAreaRect(c))
        h == MinRectH(minAreaRect(c))
    IN  /\ comp # {}
        /\ ~OutsideWindow(a, H * W)
        /\ ~TooSmall(w, h)
        /\ LowRectangularity(a, w, h)

\* The candidate list of detect_boxes_mask before nms_quads, for the labels
\* scene[1], scene[2], ... in np.unique order.
RECURSIVE MaskCandidates(_, _, _)
MaskCandidates(scene, H, W) ==
    IF scene = << >> THEN << >>
    ELSE MaskLabel(Head(scene), H, W) \o MaskCandidates(Tail(scene), H, W)

\* ">=" in place of ">".
TooElongatedInclusive(w, h) ==
    LET hi == IF w > h THEN w ELSE h
        lo == IF w < h THEN w ELSE h
    IN  2 * hi >= 9 * (IF lo < 1 THEN 1 ELSE lo)

\* ar = max(w, h) / max(1.0, min(w, h));  ar > 4.5
TooElongated(w, h) ==
    LET hi == IF w > h THEN w ELSE h
        lo == IF w < h THEN w ELSE h
    IN  2 * hi > 9 * (IF lo < 1 THEN 1 ELSE lo)

\* One iteration of "for c in cnts" of detect_boxes_edges.
EdgeContour(c, H, W) ==
    LET a == contourArea(c)
        w == MinRectW(minAreaRect(c))
        h == MinRectH(minAreaRect(c))
    IN  IF OutsideWindow(a, H * W) THEN << >>
        ELSE IF TooSmall(w, h) THEN << >>
        ELSE IF TooElongated(w, h) THEN << >>
        ELSE << Cand(c, 0, 0, "edge") >>

RECURSIVE EdgeCandidates(_, _, _)
EdgeCandidates(cnts, H, W) ==
    IF cnts = << >> THEN << >>
    ELSE EdgeContour(Head(cnts), H, W) \o EdgeCandidates(Tail(cnts), H, W)

Points(cands) == [i \in 1..Len(cands) |-> cands[i].pts]

\* The candidates returned as they were collected.
DeduplicateSkipped(cands, areaOrder) == cands

\* boxes = nms_quads(boxes, iou_thresh=0.25), on candidates with provenance.
Deduplicate(cands, areaOrder) ==
    LET kept == nms_kept(Points(cands), areaOrder)
    IN  [k \in 1..Len(kept) |-> cands[kept[k]]]

\* ------------------------------------------------------------------- pages
PageH == 600        \* the page is PageH x PageW pixels
PageW == 620
MaxLabels == 2      \* at most this many components (labels, contours) per run
\* The bars of an L shape span the pixels lo..hi and are thin or wide.
Bar == [lo |-> 10, hi |-> 589, thin |-> 16, wide |-> 40]

\* One rotation listed twice.
RotationsWithRepeat == <<0, 90, 90, 270>>

\* rotations = [(page_bgr, 0), (..., 90), (..., 180), (..., 270)]
Rotations == <<0, 90, 180, 270>>

\* The shape (H, W) of the page rotated by the angle.
Frame(angle) ==
    IF angle \in {90, 270} THEN [h |-> PageW, w |-> PageH] ELSE [h |-> PageH, w |-> PageW]
Frames == {Frame(Rotations[i]) : i \in 1..Len(Rotations)}

BarLeft(t) == R(Bar.lo, Bar.lo, Bar.lo + t - 1, Bar.hi)
BarRight(t) == R(Bar.hi - t + 1, Bar.lo, Bar.hi, Bar.hi)
BarTop(t) == R(Bar.lo, Bar.lo, Bar.hi, Bar.lo + t - 1)
BarBottom(t) == R(Bar.lo, Bar.hi - t + 1, Bar.hi, Bar.hi)

LShapes ==
    UNION {{ {BarLeft(t), BarBottom(t)}, {BarRight(t), BarBottom(t)},
             {BarLeft(t), BarTop(t)}, {BarRight(t), BarTop(t)} } : t \in {Bar.thin, Bar.wide}}

\* Two photos side by side, the left one scanned 4 px lower than the right one.
PhotoA == {R(100, 104, 299, 253)}
PhotoB == {R(320, 100, 519, 249)}
Speck == {R(100, 300, 159, 359)}

\* The components a segmentation of the rotated page can consist of: photos,
\* a speck, a sliver, an elongated strip, a 4.5 : 1 strip, nearly the whole
\* page, and L-shaped merges of two photos.
Shapes(f) ==
    { PhotoA, PhotoB, Speck,
      {R(560, 1, 579, 598)}, {R(100, 50, 199, 549)}, {R(300, 300, 360, 570)},
      {R(1, 1, f.w - 2, f.h - 2)} } \cup LShapes

\* The components of the pages the whole pipeline is run on.
PageShapes(f) ==
    {PhotoA, PhotoB, Speck, {BarLeft(Bar.thin), BarBottom(Bar.thin)},
     {BarLeft(Bar.thin), BarTop(Bar.thin)}}

\* Labels are disjoint and not connected to each other.
Separate(a, b) == \A r \in a, q \in b : ~Touch(r, q)

ScenesOf(shapes) ==
    UNION {{sc \in [1..n -> shapes] :
               \A i, j \in 1..n : i < j => Separate(sc[i], sc[j])} : n \in 0..MaxLabels}

\* What the detectors make of every scene, computed once.
Detectors == {"mask", "edge"}
Candidates(det, sc, f) ==
    IF det = "mask" THEN MaskCandidates(sc, f.h, f.w) ELSE EdgeCandidates(sc, f.h, f.w)
PageScenes == [f \in Frames |-> ScenesOf(PageShapes(f))]
PageCandidates ==
    [f \in Frames |-> [det \in Detectors |-> [sc \in PageScenes[f] |-> Candidates(det, sc, f)]]]
\* The runs a detector can make: the frame, the detector and the Boxes it
\* returns for a scene, one run per order of the sort.
PageKeys == UNION {{f} \X Detectors \X PageScenes[f] : f \in Frames}
PageRunKeys ==
    UNION {{t} \X ArgsortDesc(Points(PageCandidates[t[1]][t[2]][t[3]])) : t \in PageKeys}
PageRuns ==
    {[f |-> k[1][1], det |-> k[1][2],
      boxes |-> Deduplicate(PageCandidates[k[1][1]][k[1][2]][k[1][3]], k[2])] : k \in PageRunKeys}

\* ------------------------------------------------------------------ canvas
(***************************************************************************)
(* A blank white canvas on which up to two dark-bordered rectangles are    *)
(* drawn, none touching another.  The segmentation of the canvas, however  *)
(* rotated, has one component per rectangle, the rectangle's pixels.       *)
(***************************************************************************)
Canvas == [h |-> 1600, w |-> 1200]
Patch == [h |-> 300, w |-> 400]
PatchXs == {100, 700}              \* px: left edges of the rectangles
PatchYs == {100, 104, 450, 1200}   \* px: top edges of the rectangles
PatchAt(x, y) == R(x, y, x + Patch.w - 1, y + Patch.h - 1)
Patches == {PatchAt(x, y) : x \in PatchXs, y \in PatchYs}
CanvasPages ==
    {p \in SUBSET Patches :
        Cardinality(p) <= 2 /\ \A a, b \in p : a # b => ~Touch(a, b)}

\* cv2.rotate(page_bgr, ...): where the pixel rectangle r of a page of shape
\* f lies on the page rotated clockwise by the angle.
rotate(r, f, angle) ==
    IF angle = 90 THEN R(f.h - 1 - r.y1, r.x0, f.h - 1 - r.y0, r.x1)
    ELSE IF angle = 180
    THEN R(f.w - 1 - r.x1, f.h - 1 - r.y1, f.w - 1 - r.x0, f.h - 1 - r.y0)
    ELSE IF angle = 270 THEN R(r.y0, f.w - 1 - r.x1, r.y1, f.w - 1 - r.x0)
    ELSE r

\* The shape (H, W) of the canvas rotated by the angle.
CanvasFrame(angle) ==
    IF angle \in {90, 270} THEN [h |-> Canvas.w, w |-> Canvas.h] ELSE Canvas

\* The components of the rotated canvas in label order: connected components
\* are numbered in raster order of their first pixel.
CanvasScene(rects, angle) ==
    LET rs == {rotate(r, Canvas, angle) : r \in rects}
        n == Cardinality(rs)
        First(a, b) == a.y0 < b.y0 \/ (a.y0 = b.y0 /\ a.x0 <= b.x0)
        seq == CHOOSE q \in [1..n -> rs] :
                   /\ \A i, j \in 1..n : i # j => q[i] # q[j]
                   /\ \A i \in 1..n - 1 : First(q[i], q[i + 1])
    IN  [k \in 1..n |-> {seq[k]}]

\* ---------------------------------------------------------- photo extractor
\* int(sqrt(n)) for 0 <= n < 2^31, by bisection on lo^2 <= n < hi^2.
RECURSIVE IsqrtIn(_, _, _)
IsqrtIn(n, lo, hi) ==
    IF hi - lo <= 1 THEN lo
    ELSE LET mid == (lo + hi) \div 2
         IN  IF mid * mid <= n THEN IsqrtIn(n, mid, hi) ELSE IsqrtIn(n, lo, mid)
Isqrt(n) == IsqrtIn(n, 0, IF n < 46340 THEN n + 1 ELSE 46341)

\* np.argmin / np.argmax over the four corners: the first index attaining it.
ArgMin4(f) == SetMin({i \in 1..4 : \A j \in 1..4 : f[i] <= f[j]})
ArgMax4(f) == SetMin({i \in 1..4 : \A j \in 1..4 : f[i] >= f[j]})

\* order_box_points: <<tl, tr, br, bl>> by coordinate sum and difference.
order_box_points(pts) ==
    LET s == [i \in 1..4 |-> pts[i][1] + pts[i][2]]
        d == [i \in 1..4 |-> pts[i][2] - pts[i][1]]
    IN  << pts[ArgMin4(s)], pts[ArgMin4(d)], pts[ArgMax4(s)], pts[ArgMax4(d)] >>

\* The squared length of the edge from p to q, in (1/Sub px)^2.
Dist2(p, q) == (p[1] - q[1]) * (p[1] - q[1]) + (p[2] - q[2]) * (p[2] - q[2])
Larger(a, b) == IF a > b THEN a ELSE b

\* maxW, maxH = int(max(wA, wB)), int(max(hA, hB)), in pixels.
WarpSize(box) ==
    LET rect == order_box_points(box)
        tl == rect[1]
        tr == rect[2]
        br == rect[3]
        bl == rect[4]
    IN  [w |-> Isqrt(Larger(Dist2(br, bl), Dist2(tr, tl)) \div (Sub * Sub)),
         h |-> Isqrt(Larger(Dist2(tr, br), Dist2(tl, bl)) \div (Sub * Sub))]

\* "and" in place of "or".
WarpRejectsBoth(size) == size.w < MIN_SIDE /\ size.h < MIN_SIDE

\* if maxW < 20 or maxH < 20: return None
WarpRejects(size) == size.w < MIN_SIDE \/ size.h < MIN_SIDE

\* warp_perspective_from_box: None, or the warped bitmap (its size).
None == [w |-> 0, h |-> 0]
warp_perspective_from_box(box) ==
    IF WarpRejects(WarpSize(box)) THEN None ELSE WarpSize(box)

\* ------------------------------------------------------------- border crop
(***************************************************************************)
(* auto_crop_border sees its bitmap through the Otsu threshold: the dark   *)
(* pixels of a bitmap of dark content on white are the foreground of th.   *)
(* A bitmap is its size and the pixel rectangles that are dark; the        *)
(* result is the window [x, x + w) x [y, y + h) of the input it returns.   *)
(***************************************************************************)
PAD == 10               \* auto_crop_border(img_bgr, pad=10)
OPEN_SIDE == 3          \* cv2.getStructuringElement(cv2.MORPH_RECT, (3,3))
CropMargins == {0, 5, 10, 15}      \* px: white margins around dark content

\* cv2.morphologyEx(th, cv2.MORPH_OPEN, 3 x 3) on rectangles that do not touch:
\* a rectangle narrower than the kernel is erased, any other is unchanged.
MorphOpen(rs) == {r \in rs : RectW(r) >= OPEN_SIDE /\ RectH(r) >= OPEN_SIDE}

\* cv2.boundingRect(cv2.findNonZero(th)): (x, y, w, h)
boundingRect(rs) ==
    LET b == minAreaRect(rs) IN [x |-> b.x0, y |-> b.y0, w |-> RectW(b), h |-> RectH(b)]

\* The padding added once instead of on both sides.
CropExtentOnePad(limit, x, w) == IF limit - x < w + PAD THEN limit - x ELSE w + PAD

\* x = max(0, x - pad)
CropOrigin(x) == IF x - PAD > 0 THEN x - PAD ELSE 0
\* w = min(img_bgr.shape[1] - x, w + 2*pad), x being the new origin
CropExtent(limit, x, w) == IF limit - x < w + 2 * PAD THEN limit - x ELSE w + 2 * PAD

\* The bitmap with the padding cut off its four sides.
WholeInset(img) == [x |-> PAD, y |-> PAD, w |-> img.w - 2 * PAD, h |-> img.h - 2 * PAD]

\* return img_bgr: the window that is the whole input
Whole(img) == [x |-> 0, y |-> 0, w |-> img.w, h |-> img.h]

auto_crop_border(img) ==
    LET th == MorphOpen(img.rs)
        b == boundingRect(th)
        x == CropOrigin(b.x)
        y == CropOrigin(b.y)
    IN  IF th = {} THEN Whole(img)
        ELSE [x |-> x, y |-> y,
              w |-> CropExtent(img.w, x, b.w), h |-> CropExtent(img.h, y, b.h)]

\* The Boxes a detector run on a page or on a canvas can return, and what
\* warp_perspective_from_box makes of each, computed once.
PageBoxes ==
    {box : box \in UNION {{run.boxes[i].pts : i \in 1..Len(run.boxes)} : run \in PageRuns}}
CanvasBoxes ==
    {boxPoints(rotate(r, Canvas, Rotations[i]), 0, 0) :
        r \in Patches, i \in 1..Len(Rotations)}
PageWarps == [box \in PageBoxes \cup CanvasBoxes |-> warp_perspective_from_box(box)]

\* Four times the centroid coordinate of a Box along axis k (1 = x, 2 = y),
\* in 1/Sub px.
Centroid4(box, k) == box[1][k] + box[2][k] + box[3][k] + box[4][k]

\* x*1e5 + y: the column before the row.
KeyLeqColumnMajor(a, b) ==
    Centroid4(a, 1) - Centroid4(b, 1) <= (Centroid4(b, 2) - Centroid4(a, 2)) \div ROW_WEIGHT

\* key(a) <= key(b) for the key y*1e5 + x of the centroid (y, x) =
\* (mean of the ys, mean of the xs).  Times 4 * Sub this is
\* ROW_WEIGHT * Ya + Xa <= ROW_WEIGHT * Yb + Xb for the coordinate sums, which
\* for integers is Ya - Yb <= floor((Xb - Xa) / ROW_WEIGHT), within 32 bits.
KeyLeq(a, b) ==
    Centroid4(a, 2) - Centroid4(b, 2) <= (Centroid4(b, 1) - Centroid4(a, 1)) \div ROW_WEIGHT

\* An index order that may repeat an index.
ArgsortAscRepeating(boxes) ==
    LET n == Len(boxes)
    IN  {p \in [1..n -> 1..n] :
            \A i \in 1..n - 1 : KeyLeq(boxes[p[i]], boxes[p[i + 1]])}

\* The order reversed, as after [::-1].
ArgsortAscReversed(boxes) ==
    LET n == Len(boxes)
    IN  {p \in [1..n -> 1..n] :
            /\ \A i, j \in 1..n : i # j => p[i] # p[j]
            /\ \A i \in 1..n - 1 : KeyLeq(boxes[p[i + 1]], boxes[p[i]])}

\* list(np.argsort(keys)): every index order of ascending key.
ArgsortAsc(boxes) ==
    LET n == Len(boxes)
    IN  {p \in [1..n -> 1..n] :
            /\ \A i, j \in 1..n : i # j => p[i] # p[j]
            /\ \A i \in 1..n - 1 : KeyLeq(boxes[p[i]], boxes[p[i + 1]])}

\* --------------------------------------------------------------- the state
VARIABLES
    pc,        \* where the pipeline is: "mask", "edge", "sort", "warp", "done"
    rot,       \* index into Rotations of the next detector run
    best,      \* try_all_orientations' best: Boxes, angle, detector of the run
    runs,      \* the detector runs so far: detector, angle, Box count
    order,     \* extract_photos_from_scan's order
    pos,       \* position in order of the next Box to warp
    photos,    \* the photos emitted so far: source Box index and size
    want_debug, \* extract_photos_from_scan's diagnostics flag
    debug,     \* the debug dictionary it returns
    twin,      \* the same call on the same page with the flag inverted
    page,      \* the rectangles of the canvas the pipeline is run on, if any
    detIn,     \* a detector as a function: detector, frame and components,
    detOut,    \* the Boxes it returns,
    detCands,  \* the candidate Boxes each label (contour) added before NMS,
    detSplits, \* what each of its splitter calls returned,
    detPc,     \* and whether it has been called
    nmsIn,     \* nms_quads as a function: its argument,
    nmsOrder,  \* the order it processed the candidates in,
    nmsKept,   \* the indices it kept, in that order,
    nmsOut,    \* its result,
    nmsTwice,  \* its result when called again on that result,
    nmsPc,     \* and whether it has been called
    cropIn,    \* auto_crop_border as a function: its bitmap,
    cropOut,   \* the window it returns,
    cropPc,    \* and whether it has been called
    splitIn,   \* _split_component_by_projection as a function: its mask,
    splitLog,  \* the split attempts it has made, in order,
    splitOut,  \* its list boxes,
    splitPc,   \* and where it is: "vertical", "horizontal", "done"
    cornersIn, \* order_box_points as a function: its four points,
    cornersOut, \* the four points it returns,
    cornersPc  \* and whether it has been called

pipeVars == <<pc, rot, best, runs, order, pos, photos, want_debug, debug, twin, page>>
detVars == <<detIn, detOut, detCands, detSplits, detPc>>
nmsVars == <<nmsIn, nmsOrder, nmsKept, nmsOut, nmsTwice, nmsPc>>
cropVars == <<cropIn, cropOut, cropPc>>
splitVars == <<splitIn, splitLog, splitOut, splitPc>>
cornerVars == <<cornersIn, cornersOut, cornersPc>>
vars == <<pipeVars, detVars, nmsVars, cropVars, splitVars, cornerVars>>

\* best = ([], None, page_bgr, 0, {}, {})
\* The image of the tuple is the rotation of the page it shows, the counters
\* are the detector's own count of its Boxes (diag["boxes_mask"],
\* diag["boxes_edges"]).
NoInfo == [name |-> "none", n |-> 0]
NoBest ==
    [boxes |-> << >>, angle |-> 0, det |-> "none", steps |-> {}, img |-> 0, info |-> NoInfo]
\* debug = {}
NoDebug == [keys |-> {}, boxes |-> << >>, order |-> << >>, angle |-> 0, steps |-> {}]
NoTwin == [best |-> NoBest, order |-> << >>, photos |-> << >>, debug |-> NoDebug]

PipeIdle ==
    /\ pc = "idle" /\ rot = 1 /\ best = NoBest /\ runs = << >>
    /\ order = << >> /\ pos = 1 /\ photos = << >>
    /\ want_debug = FALSE /\ debug = NoDebug /\ twin = NoTwin /\ page = {}
NoCall == [det |-> "none", f |-> Frame(0), scene |-> << >>]
DetIdle ==
    /\ detIn = NoCall /\ detOut = << >> /\ detCands = << >>
    /\ detSplits = << >> /\ detPc = "idle"
NmsIdle ==
    /\ nmsIn = << >> /\ nmsOrder = << >> /\ nmsKept = << >>
    /\ nmsOut = << >> /\ nmsTwice = << >> /\ nmsPc = "idle"
NoBitmap == [h |-> 0, w |-> 0, rs |-> {}]
CropIdle == cropIn = NoBitmap /\ cropOut = Whole(NoBitmap) /\ cropPc = "idle"
CornerIdle == cornersIn = << >> /\ cornersOut = << >> /\ cornersPc = "idle"
SplitIdle ==
    splitIn = NoBitmap /\ splitLog = << >> /\ splitOut = << >> /\ splitPc = "idle"

\* ------------------------------------------------------ orientation search
\* The count compared with len(best[1]), the steps, in place of len(best[0]).
ImprovesOverSteps(boxes, cur) == Len(boxes) > Cardinality(cur.steps)

\* ">=" in place of ">".
ImprovesOrTies(boxes, cur) == Len(boxes) >= Len(cur.boxes)

\* if len(boxes) > len(best[0])
Improves(boxes, cur) == Len(boxes) > Len(cur.boxes)

\* The edge sweep left out.
NeedsFallbackNever(cur, history) == FALSE

\* The fallback decided on the latest mask run alone.
NeedsFallbackLatest(cur, history) == history[Len(history)].n = 0

\* if len(best[0]) == 0: the edge sweep runs
NeedsFallback(cur, history) == Len(cur.boxes) = 0

\* steps.update({...}) under "if return_steps": the names of the
\* intermediate images a detector returns.
MaskSteps ==
    {"L_channel", "mask_otsu_inv", "mask_opened", "mask_closed", "dist", "watershed_labels"}
EdgeSteps == {"gray", "edges", "edges_closed"}
StepsOf(det, return_steps) ==
    IF ~return_steps THEN {} ELSE IF det = "mask" THEN MaskSteps ELSE EdgeSteps

\* diag["boxes_mask"] = len(boxes); diag["boxes_edges"] = len(boxes)
InfoOf(det, boxes) ==
    [name |-> IF det = "mask" THEN "boxes_mask" ELSE "boxes_edges", n |-> Len(boxes)]

\* The image of the tuple left as it was.
BestAfterStaleImage(cur, det, angle, boxes, return_steps) ==
    IF Improves(boxes, cur)
    THEN [boxes |-> boxes, angle |-> angle, det |-> det,
          steps |-> StepsOf(det, return_steps), img |-> cur.img, info |-> InfoOf(det, boxes)]
    ELSE cur

\* if len(boxes) > len(best[0]): best = (boxes, steps, img, angle, steps, info)
BestAfter(cur, det, angle, boxes, return_steps) ==
    IF Improves(boxes, cur)
    THEN [boxes |-> boxes, angle |-> angle, det |-> det,
          steps |-> StepsOf(det, return_steps), img |-> angle, info |-> InfoOf(det, boxes)]
    ELSE cur

\* The bookkeeping of one iteration of a sweep of try_all_orientations, for
\* the call and for its twin.
Record(det, boxes) ==
    /\ runs' = Append(runs, [det |-> det, angle |-> Rotations[rot], n |-> Len(boxes)])
    /\ best' = BestAfter(best, det, Rotations[rot], boxes, want_debug)
    /\ twin' = [twin EXCEPT !.best = BestAfter(@, det, Rotations[rot], boxes, ~want_debug)]

\* One detector run on the page rotated to Rotations[rot].
Detect(det) ==
    LET f == Frame(Rotations[rot])
    IN  \E run \in PageRuns : run.f = f /\ run.det = det /\ Record(det, run.boxes)

\* for img, angle in rotations: detect_boxes_mask(img)
MaskRun ==
    /\ pc = "mask"
    /\ Detect("mask")
    /\ IF rot < Len(Rotations)
       THEN rot' = rot + 1 /\ pc' = "mask"
       ELSE rot' = 1 /\ pc' = IF NeedsFallback(best', runs') THEN "edge" ELSE "sort"
    /\ UNCHANGED <<order, pos, photos, want_debug, page, debug, detVars, nmsVars, cropVars, splitVars, cornerVars>>

\* for img, angle in rotations: detect_boxes_edges(img)
EdgeRun ==
    /\ pc = "edge"
    /\ Detect("edge")
    /\ IF rot < Len(Rotations)
       THEN rot' = rot + 1 /\ pc' = "edge"
       ELSE rot' = 1 /\ pc' = "sort"
    /\ UNCHANGED <<order, pos, photos, want_debug, page, debug, detVars, nmsVars, cropVars, splitVars, cornerVars>>

\* extract_photos_from_scan: the reading order of the returned Boxes.
Sort ==
    /\ pc = "sort"
    /\ order' \in ArgsortAsc(Points(best.boxes))
    /\ twin' = [twin EXCEPT !.order =
                    \* the same list is sorted the same way
                    IF twin.best.boxes = best.boxes THEN order'
                    ELSE CHOOSE o \in ArgsortAsc(Points(twin.best.boxes)) : TRUE]
    /\ pos' = 1
    /\ pc' = "warp"
    /\ UNCHANGED <<rot, best, runs, photos, want_debug, page, debug, detVars, nmsVars, cropVars, splitVars, cornerVars>>

\* What the Otsu threshold can make of a warped photo: nothing dark (b = 0),
\* or dark content inside a white border of b pixels.
WarpMargins == {0, 15}
WarpedBitmap(warped, b) ==
    LET r == R(b, b, warped.w - 1 - b, warped.h - 1 - b)
    IN  [h |-> warped.h, w |-> warped.w, rs |-> IF b > 0 /\ NonEmpty(r) THEN {r} ELSE {}]

\* The body of "for idx in order" on the Box with index idx: the photos after
\* it, the warped bitmap thresholding as WarpedBitmap(warped, b).
Emit(sofar, boxes, idx, b) ==
    LET warped == PageWarps[boxes[idx].pts]
    IN  IF warped = None THEN sofar
        ELSE Append(sofar, [idx |-> idx, w |-> warped.w, h |-> warped.h,
                            crop |-> auto_crop_border(WarpedBitmap(warped, b))])

\* One iteration of "for idx in order": warp, and crop unless dropped.
WarpStep ==
    /\ pc = "warp"
    /\ pos <= Len(order)
    /\ \E b \in WarpMargins :
         /\ photos' = Emit(photos, best.boxes, order[pos], b)
         /\ twin' = [twin EXCEPT !.photos =
                        IF pos <= Len(twin.order)
                        THEN Emit(@, twin.best.boxes, twin.order[pos], b) ELSE @]
    /\ pos' = pos + 1
    /\ UNCHANGED <<pc, rot, best, runs, order, want_debug, page, debug, detVars, nmsVars, cropVars, splitVars, cornerVars>>

\* debug = {"oriented": ..., "boxes": boxes, "order": order, "angle": angle,
\*          "steps": steps, "diag": diag} if want_debug, else {}
DebugOf(cur, ord, flag) ==
    IF ~flag THEN NoDebug
    ELSE [keys |-> {"oriented", "boxes", "order", "angle", "steps", "diag"},
          boxes |-> Points(cur.boxes), order |-> ord, angle |-> cur.angle, steps |-> cur.steps]

\* return photos, debug
Return ==
    /\ pc = "warp"
    /\ pos > Len(order)
    /\ debug' = DebugOf(best, order, want_debug)
    /\ twin' = [twin EXCEPT !.debug = DebugOf(twin.best, twin.order, ~want_debug)]
    /\ pc' = "done"
    /\ UNCHANGED <<rot, best, runs, order, pos, photos, want_debug, page, detVars, nmsVars, cropVars, splitVars, cornerVars>>

Init ==
    /\ pc = "mask" /\ rot = 1 /\ best = NoBest /\ runs = << >>
    /\ order = << >> /\ pos = 1 /\ photos = << >>
    /\ want_debug = TRUE /\ debug = NoDebug /\ twin = NoTwin /\ page = {}
    /\ DetIdle
    /\ NmsIdle
    /\ CropIdle
    /\ SplitIdle
    /\ CornerIdle

Next == MaskRun \/ EdgeRun \/ Sort \/ WarpStep \/ Return

Spec == Init /\ [][Next]_vars

\* The pipeline is a sequential program of finite for loops: a step that can
\* be taken is taken.
SpecLive == Spec /\ WF_vars(Next)

\* -------------------------------------------------- the canvas, end to end
\* One detector run on the canvas rotated to Rotations[rot].
CanvasDetect(det) ==
    LET angle == Rotations[rot]
        cands == Candidates(det, CanvasScene(page, angle), CanvasFrame(angle))
    IN  \E o \in ArgsortDesc(Points(cands)) : Record(det, Deduplicate(cands, o))

\* for img, angle in rotations: detect_boxes_mask(img)
CanvasMaskRun ==
    /\ pc = "mask"
    /\ CanvasDetect("mask")
    /\ IF rot < Len(Rotations)
       THEN rot' = rot + 1 /\ pc' = "mask"
       ELSE rot' = 1 /\ pc' = IF NeedsFallback(best', runs') THEN "edge" ELSE "sort"
    /\ UNCHANGED <<order, pos, photos, want_debug, page, debug, detVars, nmsVars, cropVars, splitVars, cornerVars>>

\* for img, angle in rotations: detect_boxes_edges(img)
CanvasEdgeRun ==
    /\ pc = "edge"
    /\ CanvasDetect("edge")
    /\ IF rot < Len(Rotations)
       THEN rot' = rot + 1 /\ pc' = "edge"
       ELSE rot' = 1 /\ pc' = "sort"
    /\ UNCHANGED <<order, pos, photos, want_debug, page, debug, detVars, nmsVars, cropVars, splitVars, cornerVars>>

CanvasInit ==
    /\ pc = "mask" /\ rot = 1 /\ best = NoBest /\ runs = << >>
    /\ order = << >> /\ pos = 1 /\ photos = << >>
    /\ want_debug = TRUE /\ debug = NoDebug /\ twin = NoTwin
    /\ page \in CanvasPages
    /\ DetIdle
    /\ NmsIdle
    /\ CropIdle
    /\ SplitIdle
    /\ CornerIdle

CanvasNext == CanvasMaskRun \/ CanvasEdgeRun \/ Sort \/ WarpStep \/ Return

SpecCanvas == CanvasInit /\ [][CanvasNext]_vars

\* ------------------------------------------------- detectors as functions
\* The splitter results of a mask run, one per label that reaches it.
RECURSIVE SplitterCalls(_, _, _)
SplitterCalls(scene, H, W) ==
    IF scene = << >> THEN << >>
    ELSE (IF RoutedToSplitter(Head(scene), H, W)
          THEN << split_component_by_projection(CompMask(Head(scene), H, W)) >>
          ELSE << >>) \o SplitterCalls(Tail(scene), H, W)

DetInputs ==
    {[det |-> d, f |-> f, scene |-> sc] :
        <<d, f, sc>> \in UNION {Detectors \X {g} \X ScenesOf(Shapes(g)) : g \in Frames}}

DetInit ==
    /\ PipeIdle
    /\ SplitIdle
    /\ CornerIdle
    /\ NmsIdle
    /\ CropIdle
    /\ detIn \in DetInputs
    /\ detOut = << >>
    /\ detCands = << >>
    /\ detSplits = << >>
    /\ detPc = "call"

\* detect_boxes_mask(page_bgr)
DetectMask ==
    /\ detPc = "call"
    /\ detIn.det = "mask"
    /\ LET cands == MaskCandidates(detIn.scene, detIn.f.h, detIn.f.w)
       IN  \E o \in ArgsortDesc(Points(cands)) : detOut' = Deduplicate(cands, o)
    /\ detCands' = [k \in 1..Len(detIn.scene) |->
                        MaskLabel(detIn.scene[k], detIn.f.h, detIn.f.w)]
    /\ detSplits' = SplitterCalls(detIn.scene, detIn.f.h, detIn.f.w)
    /\ detPc' = "done"
    /\ UNCHANGED <<detIn, pipeVars, nmsVars, cropVars, splitVars, cornerVars>>

\* detect_boxes_edges(page_bgr)
DetectEdges ==
    /\ detPc = "call"
    /\ detIn.det = "edge"
    /\ LET cands == EdgeCandidates(detIn.scene, detIn.f.h, detIn.f.w)
       IN  \E o \in ArgsortDesc(Points(cands)) : detOut' = Deduplicate(cands, o)
    /\ detCands' = [k \in 1..Len(detIn.scene) |->
                        EdgeContour(detIn.scene[k], detIn.f.h, detIn.f.w)]
    /\ detSplits' = << >>
    /\ detPc' = "done"
    /\ UNCHANGED <<detIn, pipeVars, nmsVars, cropVars, splitVars, cornerVars>>

DetNext == DetectMask \/ DetectEdges

SpecDetect == DetInit /\ [][DetNext]_vars

\* -------------------------------------------------- NMS as a pure function
NmsLines == {0, 500, 1000, 1500}   \* px: the lines the Boxes' edges lie on
Offsets == {1}                     \* 1/Sub px: left edges just right of a line

\* Boxes of a page wider than the 1000 px reference shape: inside it, across
\* its edge and beyond it; abutting, a fraction of a pixel apart, overlapping.
NmsLeftEdges == {Px(l) : l \in NmsLines} \cup {Px(500) + e : e \in Offsets}
\* A Box over 512 of the 2048 columns that the Box over the whole reference
\* width covers: their IoU is exactly 0.25.
QuarterBox == RectBox(0, 0, Px(250) - 1, Px(500))
NmsBoxes ==
    {RectBox(t[1], 0, Px(t[2]), Px(500)) :
        t \in {u \in NmsLeftEdges \X NmsLines : u[1] < Px(u[2])}} \cup {QuarterBox}

NmsInputs == UNION {[1..n -> NmsBoxes] : n \in 0..MaxCands}

NmsInit ==
    /\ PipeIdle
    /\ SplitIdle
    /\ CornerIdle
    /\ DetIdle
    /\ CropIdle
    /\ nmsIn \in NmsInputs
    /\ nmsOrder = << >>
    /\ nmsKept = << >>
    /\ nmsOut = << >>
    /\ nmsTwice = << >>
    /\ nmsPc = "call"

NmsApply ==
    /\ nmsPc = "call"
    /\ \E o \in ArgsortDesc(nmsIn) :
         /\ nmsOrder' = o
         /\ nmsKept' = nms_kept(nmsIn, o)
         /\ nmsOut' = nms_quads(nmsIn, o)
    /\ nmsPc' = "done"
    /\ UNCHANGED <<nmsIn, nmsTwice, pipeVars, detVars, cropVars, splitVars, cornerVars>>

\* nms_quads(nms_quads(boxes))
NmsReapply ==
    /\ nmsPc = "done"
    /\ \E o \in ArgsortDesc(nmsOut) : nmsTwice' = nms_quads(nmsOut, o)
    /\ nmsPc' = "twice"
    /\ UNCHANGED <<nmsIn, nmsOrder, nmsKept, nmsOut, pipeVars, detVars, cropVars, splitVars, cornerVars>>

NmsNext == NmsApply \/ NmsReapply

SpecNms == NmsInit /\ [][NmsNext]_vars

\* ------------------------------------------ border crop as a pure function
CropSizes == {60, 80}              \* px: widths and heights of the bitmaps

\* Dark content with white margins on its four sides, a line too thin to
\* survive the opening, or no dark pixel at all.
CropContents(w, h) ==
    {{R(m[1], m[2], w - 1 - m[3], h - 1 - m[4])} :
        m \in CropMargins \X CropMargins \X CropMargins \X CropMargins}
      \cup {{R(20, 20, 21, h - 21)}, {}}
CropInputs ==
    {[h |-> t[1][2], w |-> t[1][1], rs |-> t[2]] :
        t \in UNION {{wh} \X CropContents(wh[1], wh[2]) : wh \in CropSizes \X CropSizes}}

CropInit ==
    /\ PipeIdle
    /\ SplitIdle
    /\ CornerIdle
    /\ DetIdle
    /\ NmsIdle
    /\ cropIn \in CropInputs
    /\ cropOut = Whole(NoBitmap)
    /\ cropPc = "call"

CropApply ==
    /\ cropPc = "call"
    /\ cropOut' = auto_crop_border(cropIn)
    /\ cropPc' = "done"
    /\ UNCHANGED <<cropIn, pipeVars, detVars, nmsVars, splitVars, cornerVars>>

CropNext == CropApply

SpecCrop == CropInit /\ [][CropNext]_vars

\* ---------------------------------------- projection splitter as a function
(***************************************************************************)
(* The splitter is called by detect_boxes_mask only, on the mask of a      *)
(* component that passed the area and side checks with rectangularity      *)
(* below 0.60: here a vertical and a horizontal bar that cross or meet     *)
(* (L, T and + shapes), thin or wide, long or short, off the page border.  *)
(***************************************************************************)
BarThick == {16, 40}                       \* px: thickness of a bar
BarSpans == {<<10, 589>>, <<10, 489>>}     \* px: first and last pixel of a bar
\* Where a bar sits across the other bar: at its start, middle or end.
BarSites(span, t) == {span[1], (span[1] + span[2]) \div 2, span[2] - t + 1}
BarPairs ==
    UNION {UNION {{ {R(x, span[1], x + t - 1, span[2]), R(span[1], y, span[2], y + t - 1)} :
                        x \in BarSites(span, t), y \in BarSites(span, t)} :
                    t \in BarThick} : span \in BarSpans}
SplitInputs ==
    UNION {{CompMask(c, f.h, f.w) : c \in {b \in BarPairs : RoutedToSplitter(b, f.h, f.w)}} :
              f \in Frames}

SplitInit ==
    /\ PipeIdle
    /\ DetIdle
    /\ NmsIdle
    /\ CropIdle
    /\ CornerIdle
    /\ splitIn \in SplitInputs
    /\ splitLog = << >>
    /\ splitOut = << >>
    /\ splitPc = "vertical"

\* One split attempt, as logged: the axis, the index of the minimum, whether
\* the valley condition held, and the Boxes the attempt appended.
Attempt(axis, idx, valley, boxes) ==
    [axis |-> axis, idx |-> idx, valley |-> valley, boxes |-> boxes]

\* "Vertical split attempt", up to "if len(boxes) <= 1".
SplitVertical ==
    /\ splitPc = "vertical"
    /\ splitOut' = VerticalSplit(splitIn)
    /\ splitLog' = Append(splitLog, Attempt("vertical", ArgminCol(splitIn),
                                           ValleyCol(splitIn), VerticalSplit(splitIn)))
    /\ splitPc' = IF TryHorizontal(splitOut') THEN "horizontal" ELSE "done"
    /\ UNCHANGED <<splitIn, pipeVars, detVars, nmsVars, cropVars, cornerVars>>

\* "Horizontal split attempt (if still one piece)", and return boxes.
SplitHorizontal ==
    /\ splitPc = "horizontal"
    /\ splitOut' = splitOut \o HorizontalSplit(splitIn)
    /\ splitLog' = Append(splitLog, Attempt("horizontal", ArgminRow(splitIn),
                                           ValleyRow(splitIn), HorizontalSplit(splitIn)))
    /\ splitPc' = "done"
    /\ UNCHANGED <<splitIn, pipeVars, detVars, nmsVars, cropVars, cornerVars>>

SplitNext == SplitVertical \/ SplitHorizontal

SpecSplit == SplitInit /\ [][SplitNext]_vars

\* ------------------------------------------- corner ordering as a function
(***************************************************************************)
(* order_box_points is handed cv2.boxPoints of a minimum-area rectangle:   *)
(* the corners of a rectangle at any angle, in cyclic order from any of    *)
(* them.  The rectangles here have sides along (a, b) and (-b, a).         *)
(***************************************************************************)
SideDirs == {<<1, 0>>, <<2, 1>>, <<1, 1>>, <<1, 2>>, <<4, 3>>}
SideSteps == {10, 15}               \* px: a side is this many steps of (a, b)
CornerOrigin == <<Px(300), Px(200)>>
\* The corners, in cyclic order, of the rectangle from CornerOrigin with k
\* steps along dir and m steps across it.
Rectangle(dir, k, m) ==
    LET ux == Px(dir[1] * k)
        uy == Px(dir[2] * k)
        vx == Px(-dir[2] * m)
        vy == Px(dir[1] * m)
        ox == CornerOrigin[1]
        oy == CornerOrigin[2]
    IN  << <<ox, oy>>, <<ox + ux, oy + uy>>, <<ox + ux + vx, oy + uy + vy>>, <<ox + vx, oy + vy>> >>
\* The same cycle of corners begun at corner 1 + from, forwards or backwards.
Cycle(box, from, forwards) ==
    [i \in 1..4 |-> box[((IF forwards THEN from + i - 1 ELSE from - i + 5) % 4) + 1]]
CornerInputs ==
    {Cycle(Rectangle(t[1], t[2], t[3]), t[4], t[5]) :
        t \in SideDirs \X SideSteps \X SideSteps \X (0..3) \X BOOLEAN}

CornerInit ==
    /\ PipeIdle
    /\ DetIdle
    /\ NmsIdle
    /\ CropIdle
    /\ SplitIdle
    /\ cornersIn \in CornerInputs
    /\ cornersOut = << >>
    /\ cornersPc = "call"

\* order_box_points(pts)
CornerApply ==
    /\ cornersPc = "call"
    /\ cornersOut' = order_box_points(cornersIn)
    /\ cornersPc' = "done"
    /\ UNCHANGED <<cornersIn, pipeVars, detVars, nmsVars, cropVars, splitVars>>

CornerNext == CornerApply

SpecCorners == CornerInit /\ [][CornerNext]_vars

\* ------------------------------------------------------------ properties
Indices(seq) == 1..Len(seq)
IouRef(a, b) == iou_quads(a, b, RefH, RefW)

\* C1: no two Boxes that nms_quads returns have an IoU above the threshold.
C1_RetainedPairsWithinThreshold ==
    nmsPc = "done" =>
        \A i, j \in Indices(nmsOut) : i # j => ~OverThresh(IouRef(nmsOut[i], nmsOut[j]))

\* A candidate was suppressed and at least two Boxes were retained.
C1_Witness ==
    /\ nmsPc = "done"
    /\ Len(nmsOut) >= 2
    /\ Len(nmsOut) < Len(nmsIn)

\* C2: of two candidates with identical corners, nms_quads returns at most one.
C2_IdenticalBoxesDeduplicated ==
    nmsPc = "done" =>
        \A i, j \in Indices(nmsIn) :
            (i < j /\ nmsIn[i] = nmsIn[j]) =>
                Cardinality({k \in Indices(nmsOut) : nmsOut[k] = nmsIn[i]}) <= 1

\* C3: the IoU of a candidate with itself, as nms_quads computes it, is 1.0.
C3_SelfIouIsOne ==
    nmsPc = "done" =>
        \A i \in Indices(nmsIn) : IouRef(nmsIn[i], nmsIn[i])[1] = IouRef(nmsIn[i], nmsIn[i])[2]

\* The extent of an axis-aligned Box along axis k (1 = x, 2 = y).
Lo(box, k) == SetMin({box[i][k] : i \in 1..4})
Hi(box, k) == SetMax({box[i][k] : i \in 1..4})
\* The gap between two Boxes along axis k is more than g (in 1/Sub px).
Apart(a, b, k, g) == Lo(b, k) - Hi(a, k) > g \/ Lo(a, k) - Hi(b, k) > g
\* Interiors and boundaries share no point.
DisjointBoxes(a, b) == Apart(a, b, 1, 0) \/ Apart(a, b, 2, 0)
\* At least one cell of the reference grid lies between the two Boxes:
\* gap / Sub >= RefW / S along x, or gap / Sub >= RefH / S along y.
CellApart(a, b) ==
    \/ \E g \in 1..(Px(RefW) \div S + 1) : g * S >= RefW * Sub /\ Apart(a, b, 1, g - 1)
    \/ \E g \in 1..(Px(RefH) \div S + 1) : g * S >= RefH * Sub /\ Apart(a, b, 2, g - 1)

\* C4 as stated: the IoU of two disjoint Boxes is 0.0.
C4_DisjointIouIsZero ==
    nmsPc = "done" =>
        \A i, j \in Indices(nmsIn) :
            DisjointBoxes(nmsIn[i], nmsIn[j]) => IouRef(nmsIn[i], nmsIn[j])[1] = 0

\* C4 as amended: the IoU of two Boxes at least one grid cell apart is 0.0.
C4_CellApartIouIsZero ==
    nmsPc = "done" =>
        \A i, j \in Indices(nmsIn) :
            CellApart(nmsIn[i], nmsIn[j]) => IouRef(nmsIn[i], nmsIn[j])[1] = 0

\* Two Boxes a cell apart, both with cells on the grid.
C4_Witness ==
    /\ nmsPc = "done"
    /\ \E i, j \in Indices(nmsIn) :
         /\ CellApart(nmsIn[i], nmsIn[j])
         /\ IouRef(nmsIn[i], nmsIn[i])[1] > 0
         /\ IouRef(nmsIn[j], nmsIn[j])[1] > 0

\* C5: every Box a detector returns is the rectangle of a contour whose area
\* is within the area window of the page and whose sides are at least 20 px.
C5_ReturnedBoxesWithinLimits ==
    detPc = "done" =>
        \A i \in Indices(detOut) :
            /\ detOut[i].area * RATIO_DEN >= MIN_AREA_NUM * detIn.f.h * detIn.f.w
            /\ detOut[i].area * RATIO_DEN <= MAX_AREA_NUM * detIn.f.h * detIn.f.w
            /\ detOut[i].w >= MIN_SIDE
            /\ detOut[i].h >= MIN_SIDE

\* C6: a call of the projection splitter returns at most two Boxes.
C6_SplitterReturnsAtMostTwo ==
    detPc = "done" => \A k \in Indices(detSplits) : Len(detSplits[k]) <= 2

Swept == pc \in {"sort", "warp", "done"}
MaxCount == SetMax({0} \cup {runs[k].n : k \in Indices(runs)})
FirstAtMax == SetMin({k \in Indices(runs) : runs[k].n = MaxCount})

\* C7: the rotations are visited in the order 0, 90, 180, 270; the returned
\* Boxes are as many as the greatest count of any run, and the returned angle
\* is that of the earliest run with that count.
C7_EarliestGreatestCountWins ==
    /\ \A k \in Indices(runs) : runs[k].angle = Rotations[((k - 1) % Len(Rotations)) + 1]
    /\ Swept =>
        /\ Len(best.boxes) = MaxCount
        /\ best.angle = runs[FirstAtMax].angle

\* Two later rotations tie for the greatest count and the earlier of them won.
C7_Witness ==
    /\ pc = "done"
    /\ runs[1].n < runs[2].n
    /\ runs[3].n < runs[2].n
    /\ runs[4].n = runs[2].n
    /\ best.angle = 90

EdgeRan == \E k \in Indices(runs) : runs[k].det = "edge"
MaskFoundNothing ==
    \A k \in 1..Len(Rotations) : runs[k].det = "mask" /\ runs[k].n = 0

\* C8: an edge run comes only after four mask runs that all returned nothing;
\* after the sweeps, the edge detector has run iff they all returned nothing,
\* and otherwise the result is that of a mask run.
C8_EdgeOnlyAfterEmptyMaskSweep ==
    /\ \A k \in Indices(runs) :
         runs[k].det = "edge" => k > Len(Rotations) /\ MaskFoundNothing
    /\ Swept =>
        /\ Len(runs) >= Len(Rotations)
        /\ \A k \in 1..Len(Rotations) : runs[k].det = "mask"
        /\ EdgeRan <=> MaskFoundNothing
        /\ ~MaskFoundNothing => best.det = "mask"

\* The mask sweep found nothing and the result comes from an edge run.
C8_Witness ==
    /\ pc = "done"
    /\ Len(runs) = 2 * Len(Rotations)
    /\ best.det = "edge"

Processed == {order[k] : k \in 1..(pos - 1)}
Emitted == {photos[k].idx : k \in Indices(photos)}
BigEnough(i) ==
    LET size == WarpSize(best.boxes[i].pts)
    IN  size.w >= MIN_SIDE /\ size.h >= MIN_SIDE

\* C9: the Boxes processed so far that yielded a photo are exactly those whose
\* target width and height are both at least 20; the loop goes on after a
\* dropped Box and ends having processed every Box.
C9_PhotoIffBothSidesAtLeast20 ==
    pc \in {"warp", "done"} =>
        /\ Emitted = {i \in Processed : BigEnough(i)}
        /\ pc = "done" => Processed = Indices(best.boxes)

\* A Box was dropped and a later Box still yielded a photo.
C9_Witness ==
    /\ pc = "done"
    /\ \E k \in Indices(order) :
         /\ ~BigEnough(order[k])
         /\ \E m \in Indices(order) : m > k /\ order[m] \in Emitted

\* The Box the k-th photo was cut from.
PhotoBox(k) == best.boxes[photos[k].idx].pts

\* C10: the photos are in ascending order of the keys of their Boxes, and are
\* the Boxes of the processing order with the dropped ones left out.
C10_PhotosInReadingOrder ==
    pc \in {"warp", "done"} =>
        /\ \A i, j \in Indices(photos) : i < j => KeyLeq(PhotoBox(i), PhotoBox(j))
        /\ [k \in Indices(photos) |-> photos[k].idx]
             = SelectSeq(SubSeq(order, 1, pos - 1), LAMBDA i : i \in Emitted)

\* Two photos whose Boxes the detector returned in the other order, with a
\* dropped Box between them.
C10_Witness ==
    /\ pc = "done"
    /\ \E i, j \in Indices(photos) :
         /\ i < j
         /\ photos[i].idx > photos[j].idx
         /\ ~KeyLeq(PhotoBox(j), PhotoBox(i))
    /\ Len(photos) < Len(order)

\* The vertical extents of the two Boxes overlap.
SameRow(a, b) == Lo(a, 2) <= Hi(b, 2) /\ Lo(b, 2) <= Hi(a, 2)

\* C11: of two photos whose Boxes lie in the same row of the page, the one
\* whose centroid is further left is output first.
C11_LeftmostInRowFirst ==
    pc = "done" =>
        \A i, j \in Indices(photos) :
            (i < j /\ SameRow(PhotoBox(i), PhotoBox(j))) =>
                Centroid4(PhotoBox(i), 1) <= Centroid4(PhotoBox(j), 1)

\* No run so far returned a Box.
Blank == \A k \in Indices(runs) : runs[k].n = 0
SweepOf(det, from) ==
    \A k \in 1..Len(Rotations) :
        runs[from + k].det = det /\ runs[from + k].angle = Rotations[k]

\* The sweeps over, on a page where no run returned a Box: the mask detector
\* has run at 0, 90, 180, 270, then the edge detector at 0, 90, 180, 270, and
\* no Box, processing order or photo results.
BlankPageOutcome ==
    (Swept /\ Blank) =>
        /\ Len(runs) = 2 * Len(Rotations)
        /\ SweepOf("mask", 0)
        /\ SweepOf("edge", Len(Rotations))
        /\ best.boxes = << >>
        /\ photos = << >>
        /\ pc \in {"warp", "done"} => order = << >>

\* C12: on a page where no detector finds a Box at any rotation, the mask
\* detector runs at all four rotations, then the edge detector at all four,
\* and the pipeline returns, with an empty photo sequence.
C12_BlankPageReturnsEmpty == []BlankPageOutcome /\ <>(pc = "done")

\* The pipeline has returned from a page on which all eight runs found nothing.
C12_Witness == pc = "done" /\ Blank /\ Len(runs) = 2 * Len(Rotations) /\ photos = << >>

\* The margins of the content of the cropped bitmap: left, top, right, bottom.
CropContent == minAreaRect(cropIn.rs)
MarginsAre(m) ==
    /\ cropIn.rs # {}
    /\ CropContent.x0 = m /\ CropContent.y0 = m
    /\ cropIn.w - 1 - CropContent.x1 = m /\ cropIn.h - 1 - CropContent.y1 = m
UniformMargin == {m \in CropMargins : m >= PAD /\ MarginsAre(m)}

\* C13 as stated: a uniform white margin of m >= 10 px is removed exactly,
\* the result being the bounding box of the content.
C13_MarginRemovedExactly ==
    cropPc = "done" =>
        \A m \in UniformMargin :
            /\ cropOut.w = cropIn.w - 2 * m
            /\ cropOut.h = cropIn.h - 2 * m

\* C13 as amended: of a uniform white margin of m >= 10 px, 10 px are kept on
\* every side, the result being the bounding box of the content grown by the
\* padding.
C13_MarginCutToPadding ==
    cropPc = "done" =>
        \A m \in UniformMargin :
            /\ cropOut.x = m - PAD /\ cropOut.y = m - PAD
            /\ cropOut.w = cropIn.w - 2 * (m - PAD)
            /\ cropOut.h = cropIn.h - 2 * (m - PAD)

\* A bitmap with a uniform margin wider than the padding has been cropped.
C13_Witness ==
    /\ cropPc = "done"
    /\ \E m \in UniformMargin : m > PAD
    /\ cropOut.w < cropIn.w

\* C14: when the opened threshold mask has no foreground pixel, the result is
\* the input itself: the window at (0, 0) of the input's width and height.
C14_NoForegroundReturnsInput ==
    (cropPc = "done" /\ MorphOpen(cropIn.rs) = {}) =>
        /\ cropOut.x = 0 /\ cropOut.y = 0
        /\ cropOut.w = cropIn.w /\ cropOut.h = cropIn.h

\* An all-white bitmap has been cropped.
C14_Witness ==
    /\ cropPc = "done"
    /\ cropIn.rs = {}
    /\ cropIn.w > 0 /\ cropIn.h > 0
    /\ cropOut.w = cropIn.w

\* C15: the photos, the Boxes behind them, the chosen rotation and the order
\* are those of the same call with the diagnostics flag inverted.
C15_DebugFlagLeavesOutputAlone ==
    /\ twin.best.boxes = best.boxes
    /\ twin.best.angle = best.angle
    /\ twin.best.det = best.det
    /\ twin.order = order
    /\ twin.photos = photos

\* A call that returned photos and a debug dictionary with the detector's
\* steps, while its twin returned the empty dictionary.
C15_Witness ==
    /\ pc = "done"
    /\ Len(photos) >= 2
    /\ want_debug
    /\ best.steps = MaskSteps /\ twin.best.steps = {}
    /\ debug.keys # {} /\ twin.debug.keys = {}

Angles == {0, 90, 180, 270}
RunsOf(det, angle) == {k \in Indices(runs) : runs[k].det = det /\ runs[k].angle = angle}

\* C16: no detector is run twice at a rotation; once the sweeps are over the
\* mask detector has run exactly once at each of 0, 90, 180, 270 and the edge
\* detector at none of them or exactly once at each.
C16_EachCombinationAtMostOnce ==
    /\ \A k \in Indices(runs) : runs[k].angle \in Angles /\ runs[k].det \in Detectors
    /\ \A det \in Detectors, a \in Angles : Cardinality(RunsOf(det, a)) <= 1
    /\ Swept =>
        /\ \A a \in Angles : Cardinality(RunsOf("mask", a)) = 1
        /\ \/ \A a \in Angles : Cardinality(RunsOf("edge", a)) = 0
           \/ \A a \in Angles : Cardinality(RunsOf("edge", a)) = 1

\* A mask run that returned nothing was followed by runs at the other
\* rotations only, one of which found Boxes.
C16_Witness ==
    /\ pc = "done"
    /\ Len(runs) = 4
    /\ runs[1].n = 0
    /\ runs[2].n > 0

\* How many of the iterations so far processed the Box with index i.
TimesProcessed(i) == Cardinality({k \in 1..(pos - 1) : order[k] = i})
Dropped == {i \in Indices(best.boxes) : ~BigEnough(i)}

\* C17: the processing order is a permutation of the indices of the returned
\* Boxes; no Box is processed twice, and at the end each has been processed
\* once and the photos are as many as the Boxes less the dropped ones.
C17_EachBoxConsumedOnce ==
    pc \in {"warp", "done"} =>
        /\ Len(order) = Len(best.boxes)
        /\ {order[k] : k \in Indices(order)} = Indices(best.boxes)
        /\ \A i \in Indices(best.boxes) : TimesProcessed(i) <= 1
        /\ pc = "done" =>
            /\ \A i \in Indices(best.boxes) : TimesProcessed(i) = 1
            /\ Len(photos) = Len(best.boxes) - Cardinality(Dropped)
            /\ Cardinality(Emitted) = Len(photos)

\* Three or more Boxes were processed in an order other than the detector's,
\* some dropped and some emitted.
C17_Witness ==
    /\ pc = "done"
    /\ Len(best.boxes) >= 3
    /\ \E k \in Indices(order) : order[k] # k
    /\ Dropped # {}
    /\ photos # << >>

\* The label's contour passes the area window and the 20 px side check.
Qualifies(comp, H, W) ==
    LET c == MaxContour(findContours(CompMask(comp, H, W)))
    IN  /\ comp # {}
        /\ ~OutsideWindow(contourArea(c), H * W)
        /\ ~TooSmall(MinRectW(minAreaRect(c)), MinRectH(minAreaRect(c)))

\* The component masks the run hands to the projection splitter, and the
\* halves the splitter hands to cv2.findContours.
SplitterInputs ==
    {CompMask(detIn.scene[k], detIn.f.h, detIn.f.w) :
        k \in {j \in Indices(detIn.scene) :
                  RoutedToSplitter(detIn.scene[j], detIn.f.h, detIn.f.w)}}
HalvesOf(m) ==
    (IF ValleyCol(m)
     THEN {SliceCols(m, 0, ArgminCol(m)), SliceCols(m, ArgminCol(m), m.w)} ELSE {})
    \cup (IF TryHorizontal(VerticalSplit(m)) /\ ValleyRow(m)
          THEN {SliceRows(m, 0, ArgminRow(m)), SliceRows(m, ArgminRow(m), m.h)} ELSE {})

\* cv2.watershed marks the border pixels of the image -1: no label > 1 has a
\* pixel in the first or last row or column.
OffBorder ==
    \A k \in Indices(detIn.scene) : \A r \in detIn.scene[k] :
        r.x0 >= 1 /\ r.y0 >= 1 /\ r.x1 <= detIn.f.w - 2 /\ r.y1 <= detIn.f.h - 2

\* C18: a mask run on a page none of whose components qualifies returns no
\* Box, and the splitter never splits at index 0: each half it examines has
\* at least one row and one column.
C18_MaskDetectorTotal ==
    (detPc = "done" /\ detIn.det = "mask") =>
        /\ OffBorder
        /\ (\A k \in Indices(detIn.scene) :
               ~Qualifies(detIn.scene[k], detIn.f.h, detIn.f.w)) => detOut = << >>
        /\ \A m \in SplitterInputs : \A half \in HalvesOf(m) : half.w >= 1 /\ half.h >= 1

\* A page with a component outside the area window and a component whose
\* split left a half without any foreground.
C18_Witness ==
    /\ detPc = "done"
    /\ detIn.det = "mask"
    /\ \E k \in Indices(detIn.scene) : ~Qualifies(detIn.scene[k], detIn.f.h, detIn.f.w)
    /\ \E m \in SplitterInputs : \E half \in HalvesOf(m) : half.rs = {}

\* The contour area and the min-rect of the k-th label of the run.
LabelArea(k) == contourArea(detIn.scene[k])
LabelRect(k) == minAreaRect(detIn.scene[k])
\* Rectangularity >= 0.60, on a rectangle of at least 20 x 20 px.
Rectangular(k) ==
    LabelArea(k) * 100 >= 60 * MinRectW(LabelRect(k)) * MinRectH(LabelRect(k))
\* How many of the labels before the k-th were handed to the splitter.
SplitsBefore(k) ==
    Cardinality({j \in 1..k - 1 :
                    Qualifies(detIn.scene[j], detIn.f.h, detIn.f.w) /\ ~Rectangular(j)})
SplitLabels ==
    {k \in Indices(detIn.scene) :
        Qualifies(detIn.scene[k], detIn.f.h, detIn.f.w) /\ ~Rectangular(k)}
\* The Box lies within the min-rect of the k-th label.
WithinLabel(box, k) ==
    \A i \in 1..4 :
        /\ Px(LabelRect(k).x0) <= box[i][1] /\ box[i][1] <= Px(LabelRect(k).x1)
        /\ Px(LabelRect(k).y0) <= box[i][2] /\ box[i][2] <= Px(LabelRect(k).y1)

\* The routing of the labels of a mask run: a label that passes the area and
\* side checks adds, when its rectangularity is at least 0.60, exactly one
\* candidate, the four corners of its min-rect, without a splitter call; when
\* it is below 0.60, exactly the Boxes its splitter call returned.  The
\* splitter is called once per such label, and every Box returned comes from
\* a label > 1: it lies within the min-rect of one of the components.
\* With ownRectExcluded, no Box of a split label is the label's own min-rect.
Routing(ownRectExcluded) ==
    (detPc = "done" /\ detIn.det = "mask") =>
        /\ Len(detCands) = Len(detIn.scene)
        /\ Len(detSplits) = Cardinality(SplitLabels)
        /\ \A k \in Indices(detIn.scene) :
              IF ~Qualifies(detIn.scene[k], detIn.f.h, detIn.f.w)
              THEN detCands[k] = << >>
              ELSE IF Rectangular(k)
              THEN /\ Len(detCands[k]) = 1
                   /\ detCands[k][1].pts = boxPoints(LabelRect(k), 0, 0)
                   /\ detCands[k][1].src = "direct"
              ELSE /\ detCands[k] = detSplits[SplitsBefore(k) + 1]
                   /\ detCands[k] =
                        split_component_by_projection(
                            CompMask(detIn.scene[k], detIn.f.h, detIn.f.w))
                   /\ \A i \in Indices(detCands[k]) :
                         /\ detCands[k][i].src = "split"
                         /\ ownRectExcluded =>
                               detCands[k][i].pts # boxPoints(LabelRect(k), 0, 0)
        /\ \A i \in Indices(detOut) :
              \E k \in Indices(detIn.scene) : WithinLabel(detOut[i].pts, k)

PatchOf(k) == {r \in page : boxPoints(r, 0, 0) = PhotoBox(k)}
\* Box a comes before Box b top to bottom and, at the same height, left to
\* right.
ReadsBefore(a, b) ==
    \/ Centroid4(a, 2) < Centroid4(b, 2)
    \/ Centroid4(a, 2) = Centroid4(b, 2) /\ Centroid4(a, 1) <= Centroid4(b, 1)

AxisLen(axis) == IF axis = "vertical" THEN splitIn.w ELSE splitIn.h
AxisBg(axis, i) == IF axis = "vertical" THEN ColBg(splitIn, i) ELSE RowBg(splitIn, i)
AxisMin(axis) == SetMin({AxisBg(axis, i) : i \in 0..AxisLen(axis) - 1})
AxisMax(axis) == SetMax({AxisBg(axis, i) : i \in 0..AxisLen(axis) - 1})
\* The maximum is positive and the minimum is below 20 % of it.
HasValley(axis) == AxisMax(axis) > 0 /\ 5 * AxisMin(axis) < AxisMax(axis)

\* C21: an attempt of the projection splitter splits only when the background
\* sum along its axis has a positive maximum and a minimum strictly below
\* 20 % of it, and then at the first index attaining the minimum; when
\* neither axis has such a valley the splitter returns the empty list.
C21_SplitOnlyAtValley ==
    /\ \A k \in Indices(splitLog) :
          LET a == splitLog[k]
              least == AxisMin(a.axis)
          IN  /\ a.idx = SetMin({i \in 0..AxisLen(a.axis) - 1 : AxisBg(a.axis, i) = least})
              /\ a.valley <=> HasValley(a.axis)
              /\ ~a.valley => a.boxes = << >>
    /\ (splitPc = "done" /\ ~HasValley("vertical") /\ ~HasValley("horizontal")) =>
          splitOut = << >>

\* A mask whose column minimum is exactly 20 % of the maximum and whose rows
\* have no valley either: both attempts were made and nothing was returned.
C21_Witness ==
    /\ splitPc = "done"
    /\ Len(splitLog) = 2
    /\ 5 * AxisMin("vertical") = AxisMax("vertical")
    /\ ~HasValley("horizontal")
    /\ splitOut = << >>

\* The Boxes the vertical attempt left, once it has been made.
VerticalBoxes == splitLog[1].boxes

\* C22: the horizontal attempt is made if and only if the vertical attempt
\* left at most one Box.  Two vertical Boxes are returned as they are; a
\* single vertical Box stays in the result, ahead of the horizontal ones.
C22_HorizontalIffAtMostOne ==
    /\ splitPc = "vertical" => splitLog = << >>
    /\ splitPc = "horizontal" =>
          /\ Len(splitLog) = 1 /\ splitLog[1].axis = "vertical"
          /\ Len(VerticalBoxes) <= 1 /\ splitOut = VerticalBoxes
    /\ splitPc = "done" =>
          /\ splitLog[1].axis = "vertical"
          /\ Len(splitLog) = (IF Len(VerticalBoxes) <= 1 THEN 2 ELSE 1)
          /\ Len(splitLog) = 2 => splitLog[2].axis = "horizontal"
          /\ Len(VerticalBoxes) = 2 => splitOut = VerticalBoxes
          /\ Len(VerticalBoxes) <= 1 => splitOut = VerticalBoxes \o splitLog[2].boxes

\* A single vertical survivor returned together with a horizontal survivor.
C22_Witness ==
    /\ splitPc = "done"
    /\ Len(VerticalBoxes) = 1
    /\ Len(splitLog) = 2
    /\ Len(splitLog[2].boxes) >= 1
    /\ splitOut[1] = VerticalBoxes[1]

\* The pixels of the mask in the columns (rows) lo..hi of it, in the
\* coordinates of the mask.
Within(axis, lo, hi) ==
    {q \in {IF axis = "vertical"
            THEN R(IF r.x0 < lo THEN lo ELSE r.x0, r.y0, IF r.x1 > hi THEN hi ELSE r.x1, r.y1)
            ELSE R(r.x0, IF r.y0 < lo THEN lo ELSE r.y0, r.x1, IF r.y1 > hi THEN hi ELSE r.y1) :
            r \in splitIn.rs} : NonEmpty(q)}
\* The largest connected part of such pixels, if any: a set of contours.
LargestPart(rs) ==
    LET cnts == findContours([h |-> splitIn.h, w |-> splitIn.w, rs |-> rs])
    IN  {c \in cnts : c = MaxContour(cnts)}
\* The Boxes a half owes: the rectangle, in the coordinates of the mask, of
\* its largest part when that has an area of at least 5000 px^2.
Owed(axis, lo, hi) ==
    {boxPoints(minAreaRect(c), 0, 0) :
        c \in {d \in LargestPart(Within(axis, lo, hi)) : contourArea(d) >= 5000}}
Corners(boxes) == {boxes[i].pts : i \in Indices(boxes)}

\* C23: the Boxes of a split attempt are, in the coordinates of the whole
\* mask, the rectangles of the largest contours of the two halves, for the
\* halves where that contour has an area of at least 5000 px^2: the Box of
\* the right (bottom) half has the split column (row) added to its x (y).
C23_BoxesInMaskFrame ==
    \A k \in Indices(splitLog) :
        LET a == splitLog[k]
        IN  a.valley =>
              /\ Corners(a.boxes) =
                     Owed(a.axis, 0, a.idx - 1) \cup Owed(a.axis, a.idx, AxisLen(a.axis) - 1)
              /\ \A i \in Indices(a.boxes) : a.boxes[i].area >= 5000

\* The right half and the bottom half of a mask, split away from column 0
\* and row 0, each gave the only Box of its attempt.
C23_Witness ==
    /\ splitPc = "done"
    /\ Len(splitLog) = 2
    /\ \A k \in 1..2 :
          /\ splitLog[k].valley
          /\ splitLog[k].idx > 0
          /\ Owed(splitLog[k].axis, splitLog[k].idx, AxisLen(splitLog[k].axis) - 1) # {}
          /\ Len(splitLog[k].boxes) = 1

\* Twice the longer side of a candidate's min-rect against nine times the
\* shorter: the aspect ratio against 4.5.
LongSide(c) == IF c.w > c.h THEN c.w ELSE c.h
ShortSide(c) == IF c.w < c.h THEN c.w ELSE c.h
RatioAtMost(c) == 2 * LongSide(c) <= 9 * ShortSide(c)
RatioExactly(c) == 2 * LongSide(c) = 9 * ShortSide(c)
\* The contour of the k-th label of an edge run as a candidate, whether or
\* not the run accepts it.
AsCand(k) == Cand(detIn.scene[k], 0, 0, "edge")

\* C24: every Box of an edge run has an aspect ratio of at most 4.5; a
\* contour inside the area window, with sides of at least 20 px and a ratio
\* of exactly 4.5, is a candidate; and the returned Boxes are candidates no
\* two of which have an IoU above 0.25.
C24_EdgeBoxesAtMostFourAndAHalf ==
    (detPc = "done" /\ detIn.det = "edge") =>
        /\ \A i \in Indices(detOut) :
              /\ RatioAtMost(detOut[i])
              /\ \E k \in Indices(detCands) : detCands[k] = << detOut[i] >>
        /\ \A k \in Indices(detIn.scene) :
              (Qualifies(detIn.scene[k], detIn.f.h, detIn.f.w) /\ RatioExactly(AsCand(k))) =>
                  detCands[k] = << AsCand(k) >>
        /\ \A i, j \in Indices(detOut) :
              i # j => ~OverThresh(IouRef(detOut[i].pts, detOut[j].pts))

\* An edge run that returned a Box of ratio exactly 4.5 and rejected a
\* longer contour.
C24_Witness ==
    /\ detPc = "done"
    /\ detIn.det = "edge"
    /\ \E i \in Indices(detOut) : RatioExactly(detOut[i])
    /\ \E k \in Indices(detIn.scene) :
          /\ Qualifies(detIn.scene[k], detIn.f.h, detIn.f.w)
          /\ ~RatioAtMost(AsCand(k))
          /\ detCands[k] = << >>

\* The IoU of two candidates of the call as nms_quads computes it, against
\* the threshold 0.25.
IouAbove(i, j) == IouRef(nmsIn[i], nmsIn[j])[1] * 4 > IouRef(nmsIn[i], nmsIn[j])[2]
IouEqual(i, j) == IouRef(nmsIn[i], nmsIn[j])[1] * 4 = IouRef(nmsIn[i], nmsIn[j])[2]
\* The candidates kept among the first n of the processing order.
KeptBefore(n) == {nmsOrder[q] : q \in {r \in 1..n - 1 : \E k \in Indices(nmsKept) : nmsKept[k] = nmsOrder[r]}}

Discarded == Indices(nmsIn) \ {nmsKept[k] : k \in Indices(nmsKept)}
\* How often a Box occurs in a list.
Count(box, boxes) == Cardinality({i \in Indices(boxes) : boxes[i] = box})

\* C30: every candidate nms_quads discards has an IoU above the threshold
\* with a retained Box of at least its area, and nms_quads applied to its
\* own result returns the same Boxes.
C30_MaximalAndIdempotent ==
    /\ nmsPc \in {"done", "twice"} =>
          \A i \in Discarded :
              \E k \in Indices(nmsKept) :
                  /\ IouAbove(i, nmsKept[k])
                  /\ Area2(nmsIn[nmsKept[k]]) >= Area2(nmsIn[i])
    /\ nmsPc = "twice" =>
          /\ Len(nmsTwice) = Len(nmsOut)
          /\ \A i \in Indices(nmsOut) : Count(nmsOut[i], nmsTwice) = Count(nmsOut[i], nmsOut)

\* A call that discarded a candidate and retained two, applied again.
C30_Witness ==
    /\ nmsPc = "twice"
    /\ Discarded # {}
    /\ Len(nmsOut) >= 2
    /\ Len(nmsTwice) = Len(nmsOut)

\* The Boxes lie on the page rotated by the angle.
OnPage(boxes, angle) ==
    \A i \in Indices(boxes) : \A c \in 1..4 :
        /\ 0 <= boxes[i].pts[c][1] /\ boxes[i].pts[c][1] <= Px(Frame(angle).w - 1)
        /\ 0 <= boxes[i].pts[c][2] /\ boxes[i].pts[c][2] <= Px(Frame(angle).h - 1)
\* The tuple is what the logged run produced.
FromRun(tuple, run, return_steps) ==
    /\ tuple.det = run.det
    /\ tuple.angle = run.angle
    /\ tuple.img = run.angle
    /\ Len(tuple.boxes) = run.n
    /\ tuple.info.n = run.n
    /\ tuple.info.name = (IF run.det = "mask" THEN "boxes_mask" ELSE "boxes_edges")
    /\ tuple.steps = (IF ~return_steps THEN {}
                      ELSE IF run.det = "mask" THEN MaskSteps ELSE EdgeSteps)
    /\ OnPage(tuple.boxes, tuple.img)
\* The tuple before any run improved on it: the page as given, no Box,
\* angle 0, no steps and no counters.
Untouched(tuple) ==
    /\ tuple.boxes = << >> /\ tuple.img = 0 /\ tuple.angle = 0
    /\ tuple.steps = {} /\ tuple.info.name = "none"

\* C26: the tuple of try_all_orientations is replaced as a whole, by image,
\* Boxes, angle, steps and counters of the run that just ended, so that at
\* any time all of them are those of one run with at least one Box; while no
\* run has found a Box it is the page as given, no Box, angle 0 and empty
\* diagnostics.
C26_TupleFromOneRun ==
    /\ [](IF Blank THEN Untouched(best)
          ELSE \E k \in Indices(runs) : runs[k].n > 0 /\ FromRun(best, runs[k], want_debug))
    /\ [][best' # best => FromRun(best', runs'[Len(runs')], want_debug)]_vars

\* The sweeps are over, the winning run was neither the first nor the last
\* one and an earlier run had found fewer Boxes.
C26_Witness ==
    /\ Swept
    /\ best.angle = 180
    /\ Len(best.boxes) = 2
    /\ runs[1].n = 1
    /\ best.steps = MaskSteps

\* The sides of the rectangle run at 45 degrees to the axes: two corners tie
\* for the least coordinate sum, two for the least difference.
Diamond(pts) ==
    /\ \E i, j \in 1..4 : i # j /\ pts[i][1] + pts[i][2] = pts[j][1] + pts[j][2]
                         /\ \A k \in 1..4 : pts[i][1] + pts[i][2] <= pts[k][1] + pts[k][2]
    /\ \E i, j \in 1..4 : i # j /\ pts[i][2] - pts[i][1] = pts[j][2] - pts[j][1]
                         /\ \A k \in 1..4 : pts[i][2] - pts[i][1] <= pts[k][2] - pts[k][1]
Range(seq) == {seq[i] : i \in DOMAIN seq}

\* C27: order_box_points returns the four corners it was given, each once.
C27_CornersArePermuted ==
    cornersPc = "done" =>
        /\ Len(cornersOut) = 4
        /\ Range(cornersOut) = Range(cornersIn)

\* What holds instead: the corners of a rectangle that is not at 45 degrees
\* to the axes are permuted, and a diamond never is: one of its corners is
\* returned twice and one not at all.
CornersPermutedUnlessDiamond ==
    cornersPc = "done" =>
        /\ Len(cornersOut) = 4
        /\ Range(cornersOut) = Range(cornersIn) <=> ~Diamond(cornersIn)

\* The bounding box of the pixels left by the opening, as a pixel rectangle,
\* and how far the returned window reaches beyond it on each side.
Kept == MorphOpen(cropIn.rs)
Bounding == minAreaRect(Kept)
BeyondLeft == Bounding.x0 - cropOut.x
BeyondTop == Bounding.y0 - cropOut.y
BeyondRight == (cropOut.x + cropOut.w - 1) - Bounding.x1
BeyondBottom == (cropOut.y + cropOut.h - 1) - Bounding.y1
\* The window lies within the bitmap and contains the bounding box.
WindowSound ==
    /\ cropOut.x >= 0 /\ cropOut.y >= 0
    /\ cropOut.x + cropOut.w <= cropIn.w /\ cropOut.y + cropOut.h <= cropIn.h
    /\ BeyondLeft >= 0 /\ BeyondTop >= 0 /\ BeyondRight >= 0 /\ BeyondBottom >= 0

\* C28: the window auto_crop_border returns lies within the bitmap, contains
\* the bounding box of the non-zero pixels and reaches at most 10 px beyond
\* it on every side.
C28_WindowWithinTenOfBox ==
    (cropPc = "done" /\ Kept # {}) =>
        /\ WindowSound
        /\ BeyondLeft <= 10 /\ BeyondTop <= 10
        /\ BeyondRight <= 10 /\ BeyondBottom <= 10

\* What holds instead: the window is sound and reaches at most 10 px beyond
\* the box on the left and top, and on the right and bottom as much further
\* as the left or top padding was cut short by the edge of the bitmap.
WindowWithinTwentyOfBox ==
    (cropPc = "done" /\ Kept # {}) =>
        /\ WindowSound
        /\ BeyondLeft <= 10 /\ BeyondTop <= 10
        /\ BeyondRight <= 20 - BeyondLeft /\ BeyondBottom <= 20 - BeyondTop

\* Two Boxes of the returned list overlap beyond the threshold.
Overlapping(boxes) ==
    \E i, j \in Indices(boxes) :
        i < j /\ OverThresh(iou_quads(boxes[i].pts, boxes[j].pts, RefH, RefW))
\* The run whose Boxes the orientation search returned.
Winner == CHOOSE k \in Indices(runs) : k = FirstAtMax
\* What the mask detector collects for two photos merged into an L along
\* the top and the left of the page: the splitter's Box of the whole
\* component, once from each axis.
Collected == MaskCandidates(<< {BarLeft(Bar.thin), BarTop(Bar.thin)} >>, PageH, PageW)

\* C29: what a detector run returns is deduplicated, no two of its Boxes
\* overlapping beyond the threshold; the orientation search compares the
\* counts after deduplication and returns the Boxes of the earliest run with
\* the greatest such count, the detector's counter being that count; the
\* extractor processes as many Boxes as that run returned.
C29_DeduplicatedInsideEachRun ==
    /\ ~Overlapping(best.boxes)
    /\ best.info.n = Len(best.boxes)
    /\ Swept =>
        /\ Len(best.boxes) = MaxCount
        /\ MaxCount > 0 => best.det = runs[Winner].det /\ best.angle = runs[Winner].angle
    /\ pc \in {"warp", "done"} => Len(order) = MaxCount

\* The splitter handed the detector the same Box twice, the returned list
\* holds it once beside a photo's Box, and the extractor processed the two.
C29_Witness ==
    /\ pc = "done"
    /\ best.angle = 0
    /\ Len(order) = 2
    /\ Len(Collected) = 2
    /\ Collected[1] = Collected[2]
    /\ Cardinality({i \in Indices(best.boxes) : best.boxes[i] = Collected[1]}) = 1
    /\ \E i \in Indices(best.boxes) : best.boxes[i].src = "direct"

====
